---- MODULE Spec2Model ----
(***************************************************************************)
(* Newsletter curation pipeline of hackernews_scraping/curator.py:         *)
(* classify_item, calculate_engagement_quality, generate_editorial,        *)
(* group_by_theme and NewsletterCurator.curate.                            *)
(*                                                                         *)
(* Numbers.  Python floats are modelled by exact decimals: weights,        *)
(* relevance, engagement_ratio, discussion_depth and velocity are integers *)
(* counted in hundredths, hours_old in tenths, time in seconds.            *)
(* Comparisons the code makes on unrounded values are made here on exact   *)
(* fractions by cross-multiplication.                                      *)
(*                                                                         *)
(* Records.  A Python dict is a function whose DOMAIN is the set of keys   *)
(* present; a value is wrapped as <<v>> and None is <<>>.                  *)
(***************************************************************************)
EXTENDS Integers, Sequences, FiniteSets, TLC

VARIABLES
  raw_items,      \* the batch handed to curate
  config,         \* [min_relevance, pool_size, publish_count] of the curator
  now,            \* wall clock read by datetime.now(), seconds since 2024-01-01T00:00
  pc,             \* position inside curate
  idx,            \* index of the next record of the funnel loop
  curated,        \* list "curated"
  filtered_out,   \* dict "filtered_out"
  pool,           \* list "pool"
  published,      \* list "published"
  theme_counts,   \* defaultdict "theme_counts"
  pos,            \* index of the next pool item of the publish loop
  output,         \* the document curate returns (None before it returns)
  run,            \* number of the current curate invocation
  prev_output,    \* the document the previous invocation returned
  c_item,         \* argument of a stand-alone classify_item call
  c_result,       \* its result (None before the call)
  e_item,         \* argument of a stand-alone calculate_engagement_quality call
  e_result,       \* << "returned", dict >> or << "raised" >> (None before the call)
  p_args,         \* arguments of a stand-alone _calculate_priority call
  p_result        \* its result (None before the call)

vars == << raw_items, config, now, pc, idx, curated, filtered_out, pool, published,
           theme_counts, pos, output, run, prev_output, c_item, c_result, e_item,
           e_result, p_args, p_result >>

\* the variables of the stand-alone calls
call_vars == << c_item, c_result, e_item, e_result, p_args, p_result >>

curate_vars == << raw_items, config, now, pc, idx, curated, filtered_out, pool,
                  published, theme_counts, pos, output, run, prev_output >>

----------------------------------------------------------------------------
(* Python values *)

None == << >>

Some(v) == << v >>

\* dict.get(key, default): the stored value (possibly None) or the default
Get(d, key, default) == IF key \in DOMAIN d THEN d[key] ELSE Some(default)

\* dict.get(key, default) on a dict whose values are stored unwrapped
GetRaw(d, key, default) == IF key \in DOMAIN d THEN d[key] ELSE default

\* dict.get(key)
GetOpt(d, key) == IF key \in DOMAIN d THEN d[key] ELSE None

\* "x or default" for a default that is itself the falsy value of x's type
OrElse(opt, default) == IF opt = None THEN default ELSE opt[1]

----------------------------------------------------------------------------
(* Strings: str.lower(), the "in" substring test, number formatting *)

LowerMap ==
  [A |-> "a", B |-> "b", C |-> "c", D |-> "d", E |-> "e", F |-> "f", G |-> "g",
   H |-> "h", I |-> "i", J |-> "j", K |-> "k", L |-> "l", M |-> "m", N |-> "n",
   O |-> "o", P |-> "p", Q |-> "q", R |-> "r", S |-> "s", T |-> "t", U |-> "u",
   V |-> "v", W |-> "w", X |-> "x", Y |-> "y", Z |-> "z"]

LowerChar(c) == IF c \in DOMAIN LowerMap THEN LowerMap[c] ELSE c

\* str.lower(), character by character; the string is split in halves
RECURSIVE Lower(_)
Lower(s) ==
  IF Len(s) = 0 THEN ""
  ELSE IF Len(s) = 1 THEN LowerChar(s)
  ELSE LET half == Len(s) \div 2
       IN  Lower(SubSeq(s, 1, half)) \o Lower(SubSeq(s, half + 1, Len(s)))

\* Python "kw in text"
Contains(kw, text) ==
  \E k \in 1..(Len(text) - Len(kw) + 1) : SubSeq(text, k, k + Len(kw) - 1) = kw

\* round(n / d, ...) to the nearest integer, ties to even; n >= 0, d > 0
RoundDiv(n, d) ==
  LET q == n \div d
      r == n % d
  IN  IF 2 * r < d THEN q
      ELSE IF 2 * r > d THEN q + 1
      ELSE IF q % 2 = 0 THEN q ELSE q + 1

Min(a, b) == IF a <= b THEN a ELSE b

Max(a, b) == IF a >= b THEN a ELSE b

----------------------------------------------------------------------------
(* Topic taxonomy; weights in hundredths *)

AI_TOPICS ==
  <<
    [id |-> "llm",
     keywords |-> << "llm", "gpt", "claude", "gemini", "openai", "anthropic", "deepseek",
         "language model", "chatgpt", "transformer", "llama", "mistral", "phi-3", "copilot",
         "cursor", "coding agent", "ai agent", "agentic" >>,
     weight |-> 100,
     label |-> "Large Language Models"],
    [id |-> "ml_research",
     keywords |-> << "neural network", "deep learning", "machine learning", "training",
         "inference", "model", "benchmark", "fine-tuning", "rlhf", "reasoning", "diffusion",
         "attention", "embedding", "vector" >>,
     weight |-> 90,
     label |-> "ML Research"],
    [id |-> "ai_product",
     keywords |-> << "ai-powered", "ai app", "ai startup", "ai tool", "ai api",
         "generative ai", "ai feature", "ai integration" >>,
     weight |-> 85,
     label |-> "AI Products"],
    [id |-> "ai_infra",
     keywords |-> << "gpu", "cuda", "tpu", "nvidia", "h100", "inference server",
         "model serving", "vllm", "triton", "onnx", "tensorrt" >>,
     weight |-> 90,
     label |-> "AI Infrastructure"],
    [id |-> "ai_ethics",
     keywords |-> << "ai safety", "alignment", "hallucination", "bias", "regulation",
         "ai policy", "ai governance", "responsible ai" >>,
     weight |-> 80,
     label |-> "AI Ethics & Safety"],
    [id |-> "developer_tools",
     keywords |-> << "developer", "devtools", "ide", "vscode", "programming", "coding",
         "software engineering", "api", "sdk", "framework", "library" >>,
     weight |-> 60,
     label |-> "Developer Tools"],
    [id |-> "tech_industry",
     keywords |-> << "startup", "funding", "acquisition", "layoff", "hiring", "tech company",
         "silicon valley", "yc", "vc", "series a" >>,
     weight |-> 50,
     label |-> "Tech Industry"],
    [id |-> "data_engineering",
     keywords |-> << "database", "sql", "postgres", "data pipeline", "etl", "data warehouse",
         "analytics", "bigquery", "snowflake" >>,
     weight |-> 50,
     label |-> "Data Engineering"]
  >>

NOISE_KEYWORDS ==
  << "sleep in lax", "where to sleep", "music club", "diy music", "linguistics",
      "passive voice", "grammar", "heating homes", "weather satellite", "cancer treatment",
      "drug trial", "wifi only works", "curved things", "board games" >>


----------------------------------------------------------------------------
(* classify_item *)

\* FirstNoise reporting the last matching keyword instead of the first
LastNoise(text) ==
  IF \E k \in 1..Len(NOISE_KEYWORDS) : Contains(Lower(NOISE_KEYWORDS[k]), text)
  THEN CHOOSE k \in 1..Len(NOISE_KEYWORDS) :
         /\ Contains(Lower(NOISE_KEYWORDS[k]), text)
         /\ \A m \in (k + 1)..Len(NOISE_KEYWORDS) : ~Contains(Lower(NOISE_KEYWORDS[m]), text)
  ELSE 0

\* the first noise keyword, in list order, that occurs in the text (0: none)
FirstNoise(text) ==
  IF \E k \in 1..Len(NOISE_KEYWORDS) : Contains(Lower(NOISE_KEYWORDS[k]), text)
  THEN CHOOSE k \in 1..Len(NOISE_KEYWORDS) :
         /\ Contains(Lower(NOISE_KEYWORDS[k]), text)
         /\ \A m \in 1..(k - 1) : ~Contains(Lower(NOISE_KEYWORDS[m]), text)
  ELSE 0

\* the points one keyword adds to its topic's score
KeywordPoints(keyword, title, text) ==
  IF Contains(Lower(keyword), text)
  THEN IF Contains(Lower(keyword), title) THEN 2 ELSE 1
  ELSE 0

RECURSIVE RawScore(_, _, _, _)
RawScore(keywords, n, title, text) ==
  IF n = 0 THEN 0
  ELSE RawScore(keywords, n - 1, title, text) + KeywordPoints(keywords[n], title, text)

MatchedKeywords(keywords, text) ==
  SelectSeq(keywords, LAMBDA kw : Contains(Lower(kw), text))

\* the dict topic_scores as the list of its entries in insertion order, which is
\* the order of AI_TOPICS; only topics with score > 0 get an entry
RECURSIVE TopicScores(_, _, _)
TopicScores(n, title, text) ==
  IF n = 0 THEN << >>
  ELSE LET topic_data == AI_TOPICS[n]
           score == RawScore(topic_data.keywords, Len(topic_data.keywords), title, text)
           before == TopicScores(n - 1, title, text)
       IN  IF score > 0
           THEN Append(before,
                       [id |-> topic_data.id,
                        raw_score |-> score,
                        weighted_score |-> score * topic_data.weight,
                        matched_keywords |-> MatchedKeywords(topic_data.keywords, text),
                        label |-> topic_data.label])
           ELSE before

\* PrimaryTopic taking the last maximum
PrimaryTopicLastMax(topic_scores) ==
  LET k == CHOOSE k \in 1..Len(topic_scores) :
             /\ \A m \in 1..Len(topic_scores) :
                  topic_scores[m].weighted_score <= topic_scores[k].weighted_score
             /\ \A m \in (k + 1)..Len(topic_scores) :
                  topic_scores[m].weighted_score < topic_scores[k].weighted_score
  IN  topic_scores[k]

\* max(topic_scores.items(), key = weighted_score): the first maximum
PrimaryTopic(topic_scores) ==
  LET k == CHOOSE k \in 1..Len(topic_scores) :
             /\ \A m \in 1..Len(topic_scores) :
                  topic_scores[m].weighted_score <= topic_scores[k].weighted_score
             /\ \A m \in 1..(k - 1) :
                  topic_scores[m].weighted_score < topic_scores[k].weighted_score
  IN  topic_scores[k]

RECURSIVE SumWeighted(_, _)
SumWeighted(topic_scores, n) ==
  IF n = 0 THEN 0
  ELSE SumWeighted(topic_scores, n - 1) + topic_scores[n].weighted_score

TopicIds(topic_scores) == [k \in 1..Len(topic_scores) |-> topic_scores[k].id]

\* Relevance without the clamp to 1.0
RelevanceUnclamped(total_score) == RoundDiv(total_score, 10)

\* round(min(total_score / 10, 1.0), 2), in hundredths
Relevance(total_score) == RoundDiv(Min(total_score, 1000), 10)

\* NoiseResult that keeps a topic and the relevance flag
NoiseResultStillRelevant(reason) ==
  [is_ai_relevant |-> TRUE,
   primary_topic |-> Some("other"),
   all_topics |-> << >>,
   relevance_score |-> 0,
   is_noise |-> TRUE,
   filter_reason |-> Some(reason)]

NoiseResult(reason) ==
  [is_ai_relevant |-> FALSE,
   primary_topic |-> None,
   all_topics |-> << >>,
   relevance_score |-> 0,
   is_noise |-> TRUE,
   filter_reason |-> Some(reason)]

classify_item(item) ==
  LET title == Lower(OrElse(GetOpt(item, "title"), ""))
      content == Lower(OrElse(GetOpt(item, "content"), ""))
      text == title \o " " \o content
      noise == FirstNoise(text)
      topic_scores == TopicScores(Len(AI_TOPICS), title, text)
      primary == PrimaryTopic(topic_scores)
  IN  IF noise # 0
      THEN NoiseResult("noise_keyword: " \o NOISE_KEYWORDS[noise])
      ELSE IF Len(topic_scores) = 0
      THEN NoiseResult("no_ai_keywords_matched")
      ELSE [is_ai_relevant |-> TRUE,
            primary_topic |-> Some(primary.id),
            primary_topic_label |-> primary.label,
            all_topics |-> TopicIds(topic_scores),
            topic_details |-> topic_scores,
            relevance_score |-> Relevance(SumWeighted(topic_scores, Len(topic_scores))),
            is_noise |-> FALSE,
            filter_reason |-> None]

----------------------------------------------------------------------------
(* datetime.fromisoformat on the naive forms YYYY-MM-DD, YYYY-MM-DD?HH:MM   *)
(* and YYYY-MM-DD?HH:MM:SS; the result is in seconds since                  *)
(* 2024-01-01T00:00:00.  Any other text raises, as does None.  A text with *)
(* a UTC offset parses to an aware datetime, and subtracting it from the   *)
(* naive datetime.now() raises as well; both land in the bare except.      *)

Digits == "0123456789"

IsDigit(c) == \E k \in 1..10 : SubSeq(Digits, k, k) = c

DigitVal(c) == (CHOOSE k \in 1..10 : SubSeq(Digits, k, k) = c) - 1

AllDigits(s) == \A k \in 1..Len(s) : IsDigit(SubSeq(s, k, k))

RECURSIVE Num(_)
Num(s) ==
  IF Len(s) = 0 THEN 0
  ELSE 10 * Num(SubSeq(s, 1, Len(s) - 1)) + DigitVal(SubSeq(s, Len(s), Len(s)))

IsLeap(y) == (y % 4 = 0 /\ y % 100 # 0) \/ y % 400 = 0

DaysInMonth(y, m) ==
  IF m = 2 THEN (IF IsLeap(y) THEN 29 ELSE 28)
  ELSE IF m \in {4, 6, 9, 11} THEN 30 ELSE 31

RECURSIVE DaysBeforeMonth(_, _)
DaysBeforeMonth(y, m) ==
  IF m = 1 THEN 0 ELSE DaysBeforeMonth(y, m - 1) + DaysInMonth(y, m - 1)

\* proleptic Gregorian ordinal of a date (date.toordinal)
Ordinal(y, m, d) ==
  LET p == y - 1
  IN  365 * p + (p \div 4) - (p \div 100) + (p \div 400) + DaysBeforeMonth(y, m) + d

IsoWellFormed(s) ==
  /\ Len(s) \in {10, 16, 19}
  /\ AllDigits(SubSeq(s, 1, 4)) /\ SubSeq(s, 5, 5) = "-"
  /\ AllDigits(SubSeq(s, 6, 7)) /\ SubSeq(s, 8, 8) = "-"
  /\ AllDigits(SubSeq(s, 9, 10))
  /\ Len(s) >= 16 => /\ AllDigits(SubSeq(s, 12, 13)) /\ SubSeq(s, 14, 14) = ":"
                     /\ AllDigits(SubSeq(s, 15, 16))
  /\ Len(s) = 19 => SubSeq(s, 17, 17) = ":" /\ AllDigits(SubSeq(s, 18, 19))

IsoValid(s) ==
  /\ IsoWellFormed(s)
  /\ LET y == Num(SubSeq(s, 1, 4))
         m == Num(SubSeq(s, 6, 7))
         d == Num(SubSeq(s, 9, 10))
     IN  /\ y >= 1 /\ m \in 1..12 /\ d \in 1..DaysInMonth(y, m)
         /\ Len(s) >= 16 => Num(SubSeq(s, 12, 13)) \in 0..23 /\ Num(SubSeq(s, 15, 16)) \in 0..59
         /\ Len(s) = 19 => Num(SubSeq(s, 18, 19)) \in 0..59

IsoSeconds(s) ==
  LET days == Ordinal(Num(SubSeq(s, 1, 4)), Num(SubSeq(s, 6, 7)), Num(SubSeq(s, 9, 10)))
                - Ordinal(2024, 1, 1)
      hh == IF Len(s) >= 16 THEN Num(SubSeq(s, 12, 13)) ELSE 0
      mm == IF Len(s) >= 16 THEN Num(SubSeq(s, 15, 16)) ELSE 0
      ss == IF Len(s) = 19 THEN Num(SubSeq(s, 18, 19)) ELSE 0
  IN  days * 86400 + hh * 3600 + mm * 60 + ss

\* does the try block of calculate_engagement_quality complete?
TimestampUsable(item) ==
  LET published_at == Get(item, "published_at", "")
  IN  published_at # None /\ IsoValid(published_at[1])

----------------------------------------------------------------------------
(* calculate_engagement_quality; fractions are kept as [n, d] with d > 0 *)

Frac(n, d) == [n |-> n, d |-> d]

\* fraction > c and fraction < c for a constant c given in hundredths
FracGT(f, c) == f.n * 100 > c * f.d

FracLT(f, c) == f.n * 100 < c * f.d

\* _calculate_quality_tier with the high_quality test ahead of the trending test
_calculate_quality_tier_HighQualityFirst(likes, ratio, is_flamewar, velocity) ==
  IF is_flamewar THEN "skip_flamewar"
  ELSE IF likes > 300 /\ FracLT(ratio, 60) THEN "high_quality"
  ELSE IF FracGT(velocity, 2000) /\ likes > 100 THEN "trending_must_include"
  ELSE IF likes > 100 THEN "good"
  ELSE IF likes > 30 THEN "moderate"
  ELSE "low"

\* _calculate_quality_tier with the trending test ahead of the flamewar test
_calculate_quality_tier_TrendingFirst(likes, ratio, is_flamewar, velocity) ==
  IF FracGT(velocity, 2000) /\ likes > 100 THEN "trending_must_include"
  ELSE IF is_flamewar THEN "skip_flamewar"
  ELSE IF likes > 300 /\ FracLT(ratio, 60) THEN "high_quality"
  ELSE IF likes > 100 THEN "good"
  ELSE IF likes > 30 THEN "moderate"
  ELSE "low"

_calculate_quality_tier(likes, ratio, is_flamewar, velocity) ==
  IF is_flamewar THEN "skip_flamewar"
  ELSE IF FracGT(velocity, 2000) /\ likes > 100 THEN "trending_must_include"
  ELSE IF likes > 300 /\ FracLT(ratio, 60) THEN "high_quality"
  ELSE IF likes > 100 THEN "good"
  ELSE IF likes > 30 THEN "moderate"
  ELSE "low"

\* item.get("metadata", {}).get(...) raises AttributeError when metadata is None
EngagementRaises(item) == Get(item, "metadata", << >>) = None

\* calculate_engagement_quality whose is_high_signal looks at likes alone
calculate_engagement_quality_HighSignalByLikes(item, clock) ==
  LET likes == OrElse(Get(item, "impressions_likes", 0), 0)
      replies == OrElse(Get(item, "impressions_replies", 0), 0)
      engagement_ratio == Frac(replies, Max(likes, 1))
      is_flamewar == FracGT(engagement_ratio, 150) /\ replies > 100
      is_high_signal == likes > 200
      is_emerging == likes > 50 /\ likes < 200 /\ FracLT(engagement_ratio, 80)
      kids == Get(Get(item, "metadata", << >>)[1], "kids_count", 0)
      kids_truthy == kids # None /\ kids[1] # 0
      discussion_depth == IF kids_truthy THEN Frac(replies, Max(kids[1], 1)) ELSE Frac(1, 1)
      usable == TimestampUsable(item)
      elapsed == IF usable THEN clock - IsoSeconds(item["published_at"][1]) ELSE 0
      hours_old == IF usable THEN Frac(elapsed, 3600) ELSE Frac(24, 1)
      velocity == IF usable THEN Frac(likes * 3600, Max(elapsed, 3600)) ELSE Frac(0, 1)
  IN  [engagement_ratio |-> RoundDiv(engagement_ratio.n * 100, engagement_ratio.d),
       is_flamewar |-> is_flamewar,
       is_high_signal |-> is_high_signal,
       is_emerging |-> is_emerging,
       discussion_depth |-> RoundDiv(discussion_depth.n * 100, discussion_depth.d),
       velocity |-> RoundDiv(velocity.n * 100, velocity.d),
       hours_old |-> RoundDiv(hours_old.n * 10, hours_old.d),
       quality_tier |-> _calculate_quality_tier(likes, engagement_ratio, is_flamewar, velocity)]

calculate_engagement_quality(item, clock) ==
  LET likes == OrElse(Get(item, "impressions_likes", 0), 0)
      replies == OrElse(Get(item, "impressions_replies", 0), 0)
      engagement_ratio == Frac(replies, Max(likes, 1))
      is_flamewar == FracGT(engagement_ratio, 150) /\ replies > 100
      is_high_signal == likes > 200 /\ FracLT(engagement_ratio, 50)
      is_emerging == likes > 50 /\ likes < 200 /\ FracLT(engagement_ratio, 80)
      kids == Get(Get(item, "metadata", << >>)[1], "kids_count", 0)
      kids_truthy == kids # None /\ kids[1] # 0
      discussion_depth == IF kids_truthy THEN Frac(replies, Max(kids[1], 1)) ELSE Frac(1, 1)
      usable == TimestampUsable(item)
      elapsed == IF usable THEN clock - IsoSeconds(item["published_at"][1]) ELSE 0
      hours_old == IF usable THEN Frac(elapsed, 3600) ELSE Frac(24, 1)
      velocity == IF usable THEN Frac(likes * 3600, Max(elapsed, 3600)) ELSE Frac(0, 1)
  IN  [engagement_ratio |-> RoundDiv(engagement_ratio.n * 100, engagement_ratio.d),
       is_flamewar |-> is_flamewar,
       is_high_signal |-> is_high_signal,
       is_emerging |-> is_emerging,
       discussion_depth |-> RoundDiv(discussion_depth.n * 100, discussion_depth.d),
       velocity |-> RoundDiv(velocity.n * 100, velocity.d),
       hours_old |-> RoundDiv(hours_old.n * 10, hours_old.d),
       quality_tier |-> _calculate_quality_tier(likes, engagement_ratio, is_flamewar, velocity)]

----------------------------------------------------------------------------
(* Editorial layer *)

_generate_one_liner(title, topic) ==
  LET title_lower == Lower(title)
      any(words) == \E k \in 1..Len(words) : Contains(words[k], title_lower)
  IN  IF Contains("show hn", title_lower)
      THEN "New " \o Lower(topic) \o " project worth checking out"
      ELSE IF Contains("launch hn", title_lower)
      THEN "YC startup launching in " \o Lower(topic) \o " space"
      ELSE IF Contains("ask hn", title_lower)
      THEN "Community discussion on " \o Lower(topic)
      ELSE IF any(<< "benchmark", "comparison", "vs" >>)
      THEN "Performance/comparison data for " \o Lower(topic)
      ELSE IF any(<< "raises", "funding", "acquisition" >>)
      THEN "Industry news: funding/M&A in " \o Lower(topic)
      ELSE IF any(<< "release", "announce", "introducing" >>)
      THEN "New release or announcement in " \o Lower(topic)
      ELSE IF any(<< "tutorial", "guide", "how to" >>)
      THEN "Learning resource for " \o Lower(topic)
      ELSE topic \o " insight worth reading"

RECURSIVE Join(_, _)
Join(sep, strs) ==
  IF Len(strs) = 0 THEN ""
  ELSE IF Len(strs) = 1 THEN strs[1]
  ELSE strs[1] \o sep \o Join(sep, Tail(strs))

\* the list "signals" before the "worth monitoring" fallback
WhySignals(likes, classification, engagement) ==
  LET primary == OrElse(Get(classification, "primary_topic", ""), "")
      candidates ==
        << [on |-> GetRaw(engagement, "velocity", 0) > 2000, say |-> "rapidly gaining attention"],
           [on |-> likes > 300, say |-> "highly upvoted by HN community"],
           [on |-> GetRaw(engagement, "is_high_signal", FALSE), say |-> "quality discussion"],
           [on |-> Contains("llm", primary) \/ Contains("ml_research", primary),
            say |-> "directly relevant to AI practitioners"],
           [on |-> Contains("ai_infra", primary),
            say |-> "infrastructure implications for AI deployment"],
           [on |-> Contains("ai_product", primary), say |-> "commercial AI application"] >>
      chosen == SelectSeq(candidates, LAMBDA c : c.on)
  IN  [k \in 1..Len(chosen) |-> chosen[k].say]

\* "likes > 300" raises TypeError when impressions_likes is present and None
WhyMattersRaises(item) == Get(item, "impressions_likes", 0) = None

\* _generate_why_matters that joins the last two signals
_generate_why_matters_LastTwo(item, classification, engagement) ==
  LET likes == Get(item, "impressions_likes", 0)[1]
      found == WhySignals(likes, classification, engagement)
      signals == IF Len(found) = 0 THEN << "worth monitoring" >> ELSE found
  IN  Join("; ", SubSeq(signals, Max(1, Len(signals) - 1), Len(signals)))

_generate_why_matters(item, classification, engagement) ==
  LET likes == Get(item, "impressions_likes", 0)[1]
      found == WhySignals(likes, classification, engagement)
      signals == IF Len(found) = 0 THEN << "worth monitoring" >> ELSE found
  IN  Join("; ", SubSeq(signals, 1, Min(2, Len(signals))))

_determine_audience(classification) ==
  LET topic == Get(classification, "primary_topic", "")
  IN  IF topic \in {Some("llm"), Some("ml_research")} THEN "AI engineers & researchers"
      ELSE IF topic = Some("ai_infra") THEN "ML platform engineers"
      ELSE IF topic = Some("ai_product") THEN "Product managers & founders"
      ELSE IF topic = Some("ai_ethics") THEN "AI policy & safety researchers"
      ELSE IF topic = Some("developer_tools") THEN "Software developers"
      ELSE IF topic = Some("tech_industry") THEN "Tech industry watchers"
      ELSE "General tech audience"

\* _calculate_priority with the third row ahead of the second
_calculate_priority_ThirdRowFirst(classification, engagement) ==
  LET relevance == GetRaw(classification, "relevance_score", 0)
      quality == GetRaw(engagement, "quality_tier", "low")
  IN  IF quality = "trending_must_include" /\ relevance > 60 THEN 1
      ELSE IF quality \in {"good", "high_quality"} THEN 3
      ELSE IF quality = "high_quality" /\ relevance > 50 THEN 2
      ELSE IF relevance > 30 THEN 4
      ELSE 5

_calculate_priority(classification, engagement) ==
  LET relevance == GetRaw(classification, "relevance_score", 0)
      quality == GetRaw(engagement, "quality_tier", "low")
  IN  IF quality = "trending_must_include" /\ relevance > 60 THEN 1
      ELSE IF quality = "high_quality" /\ relevance > 50 THEN 2
      ELSE IF quality \in {"good", "high_quality"} THEN 3
      ELSE IF relevance > 30 THEN 4
      ELSE 5

\* title.lower() raises AttributeError when title is present and None
OneLinerRaises(item) == Get(item, "title", "") = None

EditorialRaises(item) == OneLinerRaises(item) \/ WhyMattersRaises(item)

generate_editorial(item, classification, engagement) ==
  LET title == Get(item, "title", "")[1]
      primary_topic == GetRaw(classification, "primary_topic_label", "Tech")
  IN  [one_liner |-> _generate_one_liner(title, primary_topic),
       why_it_matters |-> _generate_why_matters(item, classification, engagement),
       audience_fit |-> _determine_audience(classification),
       newsletter_priority |-> _calculate_priority(classification, engagement)]

----------------------------------------------------------------------------
(* list.sort(key = ...): a stable sort.  keys[k] is the key of seq[k], a   *)
(* tuple.  An element moves behind the elements with a smaller key and     *)
(* behind the earlier elements with an equal key.                          *)

\* tuple comparison
TupleLess(a, b) ==
  \E k \in 1..Len(a) : a[k] < b[k] /\ \A m \in 1..(k - 1) : a[m] = b[m]

StableSort(seq, keys) ==
  LET n == Len(seq)
      ahead(k) == {m \in 1..n : \/ TupleLess(keys[m], keys[k])
                                \/ (keys[m] = keys[k] /\ m < k)}
      at(r) == CHOOSE k \in 1..n : Cardinality(ahead(k)) = r - 1
  IN  [r \in 1..n |-> seq[at(r)]]

\* list[:n], for n of either sign
Prefix(seq, n) ==
  IF n >= 0 THEN SubSeq(seq, 1, Min(n, Len(seq)))
  ELSE SubSeq(seq, 1, Max(Len(seq) + n, 0))

----------------------------------------------------------------------------
(* group_by_theme; section names without their emoji prefix *)

ThemeOf(topic) ==
  IF topic \in {Some("llm"), Some("ml_research")} THEN "AI & LLMs"
  ELSE IF topic = Some("ai_infra") THEN "AI Infrastructure"
  ELSE IF topic = Some("ai_product") THEN "AI Products & Startups"
  ELSE IF topic = Some("ai_ethics") THEN "AI Ethics & Policy"
  ELSE IF topic = Some("developer_tools") THEN "Developer Tools"
  ELSE IF topic = Some("tech_industry") THEN "Tech Industry News"
  ELSE "Other Notable"

\* item.get("classification", {}).get("primary_topic", "other")
ItemTopic(item) == Get(GetRaw(item, "classification", << >>), "primary_topic", "other")

\* x.get("editorial", {}).get("newsletter_priority", 5)
ItemPriority(item) == GetRaw(GetRaw(item, "editorial", << >>), "newsletter_priority", 5)

\* the key of group_by_theme's sort with its sign reversed
PriorityKeysDescending(items) == [k \in 1..Len(items) |-> << 0 - ItemPriority(items[k]) >>]

\* key = lambda x: x.get("editorial", {}).get("newsletter_priority", 5)
PriorityKeys(items) == [k \in 1..Len(items) |-> << ItemPriority(items[k]) >>]

group_by_theme(items) ==
  LET labels == {ThemeOf(ItemTopic(items[k])) : k \in 1..Len(items)}
      members(label) == SelectSeq(items, LAMBDA item : ThemeOf(ItemTopic(item)) = label)
  IN  [label \in labels |-> StableSort(members(label), PriorityKeys(members(label)))]

----------------------------------------------------------------------------
(* sort_key of curate *)

\* sort_key without the minus sign on the engagement score
sort_key_ScoreAscending(item) ==
  LET quality == GetRaw(item["engagement_quality"], "quality_tier", "low")
      priority == item["editorial"]["newsletter_priority"]
      velocity == GetRaw(item["engagement_quality"], "velocity", 0)
      depth == GetRaw(item["engagement_quality"], "discussion_depth", 100)
      tier == IF quality = "trending_must_include" THEN 0 ELSE 1
  IN  << tier, priority, velocity * depth >>

sort_key(item) ==
  LET quality == GetRaw(item["engagement_quality"], "quality_tier", "low")
      priority == item["editorial"]["newsletter_priority"]
      velocity == GetRaw(item["engagement_quality"], "velocity", 0)
      depth == GetRaw(item["engagement_quality"], "discussion_depth", 100)
      tier == IF quality = "trending_must_include" THEN 0 ELSE 1
      engagement_score == velocity * depth
  IN  << tier, priority, -engagement_score >>

\* SortKeys without the tier rank
SortKeysWithoutTier(items) ==
  [k \in 1..Len(items) |-> << sort_key(items[k])[2], sort_key(items[k])[3] >>]

SortKeys(items) == [k \in 1..Len(items) |-> sort_key(items[k])]

----------------------------------------------------------------------------
(* Inputs *)

MaxBatch == 3

MaxPool == 3

MaxPublish == 2

MaxTitleWords == 2

MaxContentWords == 1

MaxRecordWords == 1

MaxRerunBatch == 2

MaxRuns == 2

MaxTicks == 1

\* seconds the clock advances in one Tick
TickSeconds == 12 * 60

\* the clock when curate is first called
Clock0 == IsoSeconds("2024-01-02T00:00:00")

RECURSIVE SeqsUpTo(_, _)
SeqsUpTo(S, n) ==
  IF n = 0 THEN {<< >>}
  ELSE LET shorter == SeqsUpTo(S, n - 1)
       IN  shorter \cup {Append(s, x) : s \in shorter, x \in S}

Record(title, likes, replies) ==
  [title |-> Some(title), content |-> Some(""),
   impressions_likes |-> Some(likes), impressions_replies |-> Some(replies)]

\* records of the collector, as HackerNewsScraper emits them, and damaged ones
Flame == Record("GPT wars", 10, 200)

NoisyFlame == Record("GPT grammar", 10, 200)

Trending ==
  Record("Claude model", 150, 20)
    @@ [metadata |-> Some([kids_count |-> Some(4)]), published_at |-> Some("2024-01-01T23:00")]

Good ==
  Record("GPU benchmark", 150, 30)
    @@ [metadata |-> Some(<< >>), published_at |-> Some("2024-01-01")]

LowOld == Record("GPT tips", 5, 0) @@ [published_at |-> Some("yesterday")]

LowOldResearch == [title |-> Some("Model training"), published_at |-> None]

\* 3.9 hours old at Clock0
LowFresh == Record("GPT news", 5, 1) @@ [published_at |-> Some("2024-01-01T20:06:00")]

NullLikes ==
  [title |-> Some("ChatGPT"), content |-> None, impressions_likes |-> None,
   impressions_replies |-> None]

Corpus == {Flame, NoisyFlame, Trending, Good, LowOld, LowOldResearch, LowFresh, NullLikes}

Batches == SeqsUpTo(Corpus, MaxBatch)

\* one record for each topic of the taxonomy, and the worked example of the
\* specification with and without its timestamp (2 hours before Clock0)
Benchmark ==
  Record("Benchmarking GPT-4 vs Claude", 350, 80)
    @@ [published_at |-> Some("2024-01-01T22:00:00")]

BenchmarkUndated == Record("Benchmarking GPT-4 vs Claude", 350, 80)

TrendingMinor ==
  Record("Gemini 2 is out", 150, 10) @@ [published_at |-> Some("2024-01-01T23:00:00")]

Research == Record("Deep learning training", 40, 5)

Infra == Record("Nvidia H100", 40, 5)

Product == Record("Generative AI tool", 120, 5)

Ethics == Record("AI safety and alignment", 10, 2)

DevTools == Record("VSCode SDK framework", 40, 5)

Industry == Record("Startup funding acquisition", 40, 5)

DataEngineering == Record("Postgres SQL analytics", 40, 5)

Newsroom ==
  {Benchmark, BenchmarkUndated, TrendingMinor, Research, Infra, Product, Ethics, DevTools,
   Industry, DataEngineering}

Fixtures == Corpus \cup Newsroom

\* NewsletterCurator(min_relevance, pool_size, publish_count): the arguments are
\* stored as they come
NewsletterCurator(min_relevance, pool_size, publish_count) ==
  [min_relevance |-> min_relevance, pool_size |-> pool_size, publish_count |-> publish_count]

Configs ==
  [min_relevance : {20, 50}, pool_size : 0..MaxPool, publish_count : 0..MaxPublish]

\* headline fragments; "Grammarly" holds the noise keyword "grammar"
Fragments ==
  {"GPT", "Grammarly", "model", "gpu", "AI app", "OpenAI ChatGPT vs Anthropic Claude LLM"}

\* body fragments; "video" holds the keyword "ide"
BodyFragments == {"gpt", "a drug trial", "video"}

Phrases(words, n) == {Join(" ", chosen) : chosen \in SeqsUpTo(words, n)}

\* a text field: a phrase, None, or no key at all
Absent == << "no", "key" >>

TextOptions(words, n) == {Some(phrase) : phrase \in Phrases(words, n)} \cup {None, Absent}

\* a dict from its entries, absent ones left out
Dict(keys, options) ==
  LET present == {k \in 1..Len(keys) : options[k] # Absent}
  IN  [key \in {keys[k] : k \in present} |->
         options[CHOOSE k \in present : keys[k] = key]]

\* one keyword of ai_product, in the body only: total_score / 10 = 0.085
BodyOnlyProduct == [title |-> Some("Show HN: my project"), content |-> Some("an AI app")]

ClassifyInputs ==
  {Dict(<< "title", "content" >>, << title, content >>) :
     title \in TextOptions(Fragments, MaxTitleWords),
     content \in TextOptions(BodyFragments, MaxContentWords)}
  \cup {BodyOnlyProduct}

\* likes, replies, metadata and timestamp of a record, sound and damaged
Profiles ==
  { << Some(10), Some(200), Some([kids_count |-> Some(2)]), Some("2024-01-01T23:00:00") >>,
    << Some(500), Some(10), Some([kids_count |-> None]), Some("2024-01-01T22:00:00+00:00") >>,
    << Some(0), Absent, Some(<< >>), Some("2024-13-01T00:00:00") >>,
    << None, None, Absent, None >>,
    << Absent, Some(3), None, Absent >> }

RecordInputs ==
  {Dict(<< "title", "content", "impressions_likes", "impressions_replies", "metadata",
           "published_at" >>,
        << title, content, profile[1], profile[2], profile[3], profile[4] >>) :
     title \in TextOptions(Fragments, MaxRecordWords),
     content \in {Some(""), Some("a drug trial"), None, Absent},
     profile \in Profiles}

Clocks == {Clock0 + k * TickSeconds : k \in 0..MaxTicks}

----------------------------------------------------------------------------
(* The per-record stages of curate depend on the record and the clock only. *)
(* For the records of Fixtures they are evaluated once and looked up; None *)
(* stands for a call that raises or is never made.                         *)

Classification == [r \in Fixtures |-> classify_item(r)]

EngagementQuality ==
  [r \in Fixtures, t \in Clocks |->
     IF EngagementRaises(r) THEN None ELSE Some(calculate_engagement_quality(r, t))]

Editorial ==
  [r \in Fixtures, t \in Clocks |->
     IF Classification[r].is_noise \/ EngagementRaises(r) \/ EditorialRaises(r) THEN None
     ELSE Some(generate_editorial(r, Classification[r], EngagementQuality[r, t][1]))]

\* classify_item(item)
Classify(item) ==
  IF item \in Fixtures THEN Classification[item] ELSE classify_item(item)

\* calculate_engagement_quality(item), reading the clock
Analyze(item, clock) ==
  IF item \in Fixtures /\ clock \in Clocks THEN EngagementQuality[item, clock][1]
  ELSE calculate_engagement_quality(item, clock)

\* generate_editorial(item, classification, engagement)
Synthesize(item, clock) ==
  IF item \in Fixtures /\ clock \in Clocks THEN Editorial[item, clock][1]
  ELSE generate_editorial(item, Classify(item), Analyze(item, clock))

----------------------------------------------------------------------------
(* NewsletterCurator.curate, one action per loop iteration or straight-line *)
(* block; pc = "fault" is an exception leaving curate.                     *)

EmptyBuckets == [noise |-> << >>, low_relevance |-> << >>, flamewar |-> << >>]

\* the state at the top of curate, before the first record
Entered(items) ==
  /\ pc = (IF Len(items) = 0 THEN "sort" ELSE "funnel")
  /\ idx = 1
  /\ curated = << >>
  /\ filtered_out = EmptyBuckets
  /\ pool = << >>
  /\ published = << >>
  /\ theme_counts = << >>
  /\ pos = 1
  /\ output = None

\* {**item, "classification": .., "engagement_quality": .., "editorial": ..};
\* "src" is the record's position in raw_items, kept by the model only
CuratedItem(item, classification, engagement, editorial, src) ==
  [classification |-> classification,
   engagement_quality |-> engagement,
   editorial |-> editorial,
   src |-> src] @@ item

\* the record of raw_items after a dict display that writes it in place
SpreadSourceWritten(item, curated_item) ==
  [key \in DOMAIN curated_item \ {"src"} |-> curated_item[key]]

\* {**item, ...} builds a new dict; the record it spreads stays as it was
SpreadSource(item, curated_item) == item

AfterRecord ==
  /\ idx' = idx + 1
  /\ pc' = IF idx = Len(raw_items) THEN "sort" ELSE "funnel"

Raise ==
  /\ pc' = "fault"
  /\ UNCHANGED << raw_items, idx, curated, filtered_out >>

\* Verdict without the flamewar test
VerdictKeepingFlamewars(item, clock, min_relevance) ==
  IF Classify(item).is_noise THEN "noise"
  ELSE IF EngagementRaises(item) THEN "raise"
  ELSE IF Classify(item).relevance_score < min_relevance THEN "low_relevance"
  ELSE IF EditorialRaises(item) THEN "raise"
  ELSE "curated"

\* Verdict without the relevance test
VerdictIgnoringRelevance(item, clock, min_relevance) ==
  IF Classify(item).is_noise THEN "noise"
  ELSE IF EngagementRaises(item) THEN "raise"
  ELSE IF GetRaw(Analyze(item, clock), "quality_tier", "") = "skip_flamewar" THEN "flamewar"
  ELSE IF EditorialRaises(item) THEN "raise"
  ELSE "curated"

\* Verdict that turns away a record whose title is already among the survivors
VerdictOncePerTitle(item, clock, min_relevance) ==
  IF Classify(item).is_noise THEN "noise"
  ELSE IF EngagementRaises(item) THEN "raise"
  ELSE IF GetRaw(Analyze(item, clock), "quality_tier", "") = "skip_flamewar" THEN "flamewar"
  ELSE IF \/ Classify(item).relevance_score < min_relevance
          \/ \E k \in 1..Len(curated) : GetOpt(curated[k], "title") = GetOpt(item, "title")
  THEN "low_relevance"
  ELSE IF EditorialRaises(item) THEN "raise"
  ELSE "curated"

\* where the if-chain of the loop body sends a record
Verdict(item, clock, min_relevance) ==
  IF Classify(item).is_noise THEN "noise"
  ELSE IF EngagementRaises(item) THEN "raise"
  ELSE IF GetRaw(Analyze(item, clock), "quality_tier", "") = "skip_flamewar" THEN "flamewar"
  ELSE IF Classify(item).relevance_score < min_relevance THEN "low_relevance"
  ELSE IF EditorialRaises(item) THEN "raise"
  ELSE "curated"

\* one iteration of "for item in raw_items"
FunnelStep ==
  /\ pc = "funnel"
  /\ LET item == raw_items[idx]
         classification == Classify(item)
         title == GetOpt(item, "title")
         verdict == Verdict(item, now, config.min_relevance)
     IN  CASE verdict = "noise" ->
                /\ filtered_out' =
                     [filtered_out EXCEPT !.noise =
                        Append(@, [title |-> title, reason |-> classification.filter_reason[1]])]
                /\ curated' = curated
                /\ raw_items' = raw_items
                /\ AfterRecord
           [] verdict = "flamewar" ->
                /\ filtered_out' =
                     [filtered_out EXCEPT !.flamewar = Append(@, [title |-> title])]
                /\ curated' = curated
                /\ raw_items' = raw_items
                /\ AfterRecord
           [] verdict = "low_relevance" ->
                /\ filtered_out' =
                     [filtered_out EXCEPT !.low_relevance = Append(@, [title |-> title])]
                /\ curated' = curated
                /\ raw_items' = raw_items
                /\ AfterRecord
           [] verdict = "curated" ->
                /\ curated' =
                     Append(curated,
                            CuratedItem(item, classification, Analyze(item, now),
                                        Synthesize(item, now), idx))
                /\ raw_items' =
                     [raw_items EXCEPT ![idx] = SpreadSource(item, curated'[Len(curated')])]
                /\ filtered_out' = filtered_out
                /\ AfterRecord
           [] verdict = "raise" -> Raise
  /\ UNCHANGED << config, now, pool, published, theme_counts, pos, output,
                  run, prev_output, call_vars >>

\* curated.sort(key = sort_key); pool = curated[:pool_size]; the publish
\* loop's locals are set up
SortAndPool ==
  /\ pc = "sort"
  /\ curated' = StableSort(curated, SortKeys(curated))
  /\ pool' = Prefix(curated', config.pool_size)
  /\ published' = << >>
  /\ theme_counts' = << >>
  /\ filtered_out' = [k \in DOMAIN filtered_out \cup {"low_quality_hidden"} |->
                        IF k = "low_quality_hidden" THEN << >> ELSE filtered_out[k]]
  /\ pos' = 1
  /\ pc' = IF Len(pool') = 0 THEN "finish" ELSE "publish"
  /\ UNCHANGED << raw_items, config, now, idx, output, run, prev_output, call_vars >>

\* f"{hours_old:.1f}" for hours_old in tenths
FormatTenths(h) ==
  IF h < 0 THEN "-" \o ToString((-h) \div 10) \o "." \o ToString((-h) % 10)
  ELSE ToString(h \div 10) \o "." \o ToString(h % 10)

\* str(topic) inside the f-string
TopicText(topic) == IF topic = None THEN "None" ELSE topic[1]

HiddenReason(hours_old, topic, count) ==
  "low_quality, " \o FormatTenths(hours_old) \o "h old, topic '" \o TopicText(topic)
    \o "' has " \o ToString(count) \o " items"

\* Hidden without the thematic-gap exception
HiddenUnlessFresh(item, counts) ==
  LET quality == GetRaw(item["engagement_quality"], "quality_tier", "low")
      hours_old == GetRaw(item["engagement_quality"], "hours_old", 240)
  IN  quality = "low" /\ ~(hours_old < 40)

\* Hidden with counters that outlive the invocation: the items the previous
\* call published are still counted
HiddenWithSharedCounts(item, counts) ==
  LET quality == GetRaw(item["engagement_quality"], "quality_tier", "low")
      hours_old == GetRaw(item["engagement_quality"], "hours_old", 240)
      is_fresh == hours_old < 40
      before == IF prev_output = None THEN << >> ELSE prev_output[1].published_items
      carried == Cardinality({k \in 1..Len(before) : ItemTopic(before[k]) = ItemTopic(item)})
      fills_gap == GetRaw(counts, ItemTopic(item), 0) + carried = 0
  IN  quality = "low" /\ ~(is_fresh \/ fills_gap)

\* does the publish filter turn the item away?
Hidden(item, counts) ==
  LET quality == GetRaw(item["engagement_quality"], "quality_tier", "low")
      hours_old == GetRaw(item["engagement_quality"], "hours_old", 240)
      is_fresh == hours_old < 40
      fills_gap == GetRaw(counts, ItemTopic(item), 0) = 0
  IN  quality = "low" /\ ~(is_fresh \/ fills_gap)

\* theme_counts[topic] += 1
Increment(counts, topic) ==
  [t \in DOMAIN counts \cup {topic} |-> GetRaw(counts, t, 0) + (IF t = topic THEN 1 ELSE 0)]

\* PublishStep that counts a hidden item towards its topic as well
PublishStepCountingHidden ==
  /\ pc = "publish"
  /\ LET item == pool[pos]
         topic == ItemTopic(item)
         hours_old == GetRaw(item["engagement_quality"], "hours_old", 240)
     IN  IF Hidden(item, theme_counts)
         THEN /\ filtered_out' =
                   [filtered_out EXCEPT !.low_quality_hidden =
                      Append(@, [title |-> GetOpt(item, "title"),
                                 reason |-> HiddenReason(hours_old, topic,
                                                         GetRaw(theme_counts, topic, 0))])]
              /\ published' = published
              /\ theme_counts' = Increment(theme_counts, topic)
              /\ pc' = IF pos = Len(pool) THEN "finish" ELSE "publish"
         ELSE /\ published' = Append(published, item)
              /\ theme_counts' = Increment(theme_counts, topic)
              /\ filtered_out' = filtered_out
              /\ pc' = IF Len(published') >= config.publish_count \/ pos = Len(pool)
                       THEN "finish" ELSE "publish"
  /\ pos' = pos + 1
  /\ UNCHANGED << raw_items, config, now, idx, curated, pool, output, run, prev_output,
                  call_vars >>

\* one iteration of "for item in pool"
PublishStep ==
  /\ pc = "publish"
  /\ LET item == pool[pos]
         topic == ItemTopic(item)
         hours_old == GetRaw(item["engagement_quality"], "hours_old", 240)
     IN  IF Hidden(item, theme_counts)
         THEN /\ filtered_out' =
                   [filtered_out EXCEPT !.low_quality_hidden =
                      Append(@, [title |-> GetOpt(item, "title"),
                                 reason |-> HiddenReason(hours_old, topic,
                                                         GetRaw(theme_counts, topic, 0))])]
              /\ UNCHANGED << published, theme_counts >>
              /\ pc' = IF pos = Len(pool) THEN "finish" ELSE "publish"
         ELSE /\ published' = Append(published, item)
              /\ theme_counts' = Increment(theme_counts, topic)
              /\ filtered_out' = filtered_out
              /\ pc' = IF Len(published') >= config.publish_count \/ pos = Len(pool)
                       THEN "finish" ELSE "publish"
  /\ pos' = pos + 1
  /\ UNCHANGED << raw_items, config, now, idx, curated, pool, output, run, prev_output,
                  call_vars >>

\* the document curate returns
Document(themes) ==
  [schema_version |-> "3.1",
   curated_at |-> now,
   source |-> "hackernews",
   curation_config |-> [min_relevance |-> config.min_relevance,
                        pool_size |-> config.pool_size,
                        publish_count |-> config.publish_count],
   stats |-> [input_items |-> Len(raw_items),
              pool_items |-> Len(pool),
              published_items |-> Len(published),
              filtered_noise |-> Len(filtered_out.noise),
              filtered_low_relevance |-> Len(filtered_out.low_relevance),
              filtered_flamewar |-> Len(filtered_out.flamewar),
              filtered_low_quality |-> Len(GetRaw(filtered_out, "low_quality_hidden", << >>)),
              themes |-> [label \in DOMAIN themes |-> Len(themes[label])]],
   themes |-> themes,
   published_items |-> published,
   pool_items |-> pool,
   filtered_out |-> filtered_out]

\* themes = group_by_theme(published); the output is built and returned
Finish ==
  /\ pc = "finish"
  /\ output' = Some(Document(group_by_theme(published)))
  /\ pc' = "done"
  /\ UNCHANGED << raw_items, config, now, idx, curated, filtered_out, pool, published,
                  theme_counts, pos, run, prev_output, call_vars >>


----------------------------------------------------------------------------
(* Specifications *)

NoCall ==
  /\ c_item = << >>
  /\ c_result = None
  /\ e_item = << >>
  /\ e_result = None
  /\ p_args = << >>
  /\ p_result = None

Init ==
  /\ raw_items \in Batches
  /\ config \in Configs
  /\ now = Clock0
  /\ Entered(raw_items)
  /\ run = 1
  /\ prev_output = None
  /\ NoCall

Next == FunnelStep \/ SortAndPool \/ PublishStep \/ Finish

Spec == Init /\ [][Next]_vars

\* curate on a batch of one record, the record drawn from a wider set
InitRecord ==
  /\ raw_items \in {<< r >> : r \in RecordInputs}
  /\ config \in [min_relevance : {20, 50}, pool_size : {1}, publish_count : {1}]
  /\ now = Clock0
  /\ Entered(raw_items)
  /\ run = 1
  /\ prev_output = None
  /\ NoCall

SpecRecord == InitRecord /\ [][Next]_vars

\* curate on batches of the records of Newsroom
InitNewsroom ==
  /\ raw_items \in SeqsUpTo(Newsroom, MaxBatch)
  /\ config \in [min_relevance : {20}, pool_size : 1..MaxPool, publish_count : 1..MaxPublish]
  /\ now = Clock0
  /\ Entered(raw_items)
  /\ run = 1
  /\ prev_output = None
  /\ NoCall

SpecNewsroom == InitNewsroom /\ [][Next]_vars

\* the clock moves on
Tick ==
  /\ now + TickSeconds \in Clocks
  /\ now' = now + TickSeconds
  /\ UNCHANGED << raw_items, config, pc, idx, curated, filtered_out, pool, published,
                  theme_counts, pos, output, run, prev_output, call_vars >>

\* curate is called again on the same curator with the same batch
Rerun ==
  /\ pc = "done"
  /\ run < MaxRuns
  /\ run' = run + 1
  /\ prev_output' = output
  /\ pc' = (IF Len(raw_items) = 0 THEN "sort" ELSE "funnel")
  /\ idx' = 1
  /\ curated' = << >>
  /\ filtered_out' = EmptyBuckets
  /\ pool' = << >>
  /\ published' = << >>
  /\ theme_counts' = << >>
  /\ pos' = 1
  /\ output' = None
  /\ UNCHANGED << raw_items, config, now, call_vars >>

InitRerun ==
  /\ raw_items \in SeqsUpTo({Trending, LowFresh, LowOld, NoisyFlame}, MaxRerunBatch)
  /\ config \in Configs
  /\ now = Clock0
  /\ Entered(raw_items)
  /\ run = 1
  /\ prev_output = None
  /\ NoCall

NextRerun == Next \/ Tick \/ Rerun

SpecRerun == InitRerun /\ [][NextRerun]_vars

\* curate on a curator constructed with arguments in and out of range
RequestedConfigs ==
  {NewsletterCurator(min_relevance, pool_size, publish_count) :
     min_relevance \in {-10, 20, 150}, pool_size \in -1..MaxPool,
     publish_count \in -1..MaxPublish}

InitRequested ==
  /\ raw_items \in SeqsUpTo({Trending, LowFresh, LowOld, NoisyFlame}, MaxRerunBatch)
  /\ config \in RequestedConfigs
  /\ now = Clock0
  /\ Entered(raw_items)
  /\ run = 1
  /\ prev_output = None
  /\ NoCall

SpecRequested == InitRequested /\ [][Next]_vars

\* curate with thresholds that part the records of a batch: the relevance of
\* Benchmark is 0.58, of Trending 0.38, of LowOld 0.20
InitThreshold ==
  /\ raw_items \in SeqsUpTo({Benchmark, Trending, LowOld, NoisyFlame, Flame}, MaxBatch)
  /\ config \in [min_relevance : {30, 50}, pool_size : 1..MaxPool,
                  publish_count : 1..MaxPublish]
  /\ now = Clock0
  /\ Entered(raw_items)
  /\ run = 1
  /\ prev_output = None
  /\ NoCall

SpecThreshold == InitThreshold /\ [][Next]_vars

\* a stand-alone call of classify_item
Idle ==
  /\ raw_items = << >>
  /\ config = [min_relevance |-> 20, pool_size |-> 25, publish_count |-> 8]
  /\ now = Clock0
  /\ pc = "idle"
  /\ idx = 1
  /\ curated = << >>
  /\ filtered_out = EmptyBuckets
  /\ pool = << >>
  /\ published = << >>
  /\ theme_counts = << >>
  /\ pos = 1
  /\ output = None
  /\ run = 0
  /\ prev_output = None

InitClassify ==
  /\ Idle
  /\ c_item \in ClassifyInputs
  /\ c_result = None
  /\ e_item = << >>
  /\ e_result = None
  /\ p_args = << >>
  /\ p_result = None

ClassifyCall ==
  /\ c_result = None
  /\ c_result' = Some(classify_item(c_item))
  /\ UNCHANGED << c_item, e_item, e_result, p_args, p_result, curate_vars >>

NextClassify == ClassifyCall

SpecClassify == InitClassify /\ [][NextClassify]_vars

\* a stand-alone call of calculate_engagement_quality
LikesOptions ==
  {Absent, None, Some(0), Some(30), Some(31), Some(100), Some(101), Some(150), Some(200),
   Some(201), Some(300), Some(301), Some(350)}

RepliesOptions ==
  {Absent, None, Some(0), Some(80), Some(100), Some(102), Some(180), Some(182), Some(210),
   Some(225), Some(226), Some(600)}

MetadataOptions ==
  {Absent, None, Some(<< >>), Some([kids_count |-> None]), Some([kids_count |-> Some(0)]),
   Some([kids_count |-> Some(4)])}

\* 1, 2, 3.9 and 10 hours before Clock0, one hour after it, and unusable values
TimestampOptions ==
  {Absent, None, Some(""), Some("yesterday"), Some("2024-01-01T23:00:00+00:00"),
   Some("2024-01-01T23:00:00"), Some("2024-01-01T22:00:00"), Some("2024-01-01T20:06:00"),
   Some("2024-01-01T14:00:00"), Some("2024-01-02T01:00:00")}

AnalyzeInputs ==
  {Dict(<< "impressions_likes", "impressions_replies", "metadata", "published_at" >>,
        << likes, replies, metadata, published_at >>) :
     likes \in LikesOptions, replies \in RepliesOptions, metadata \in MetadataOptions,
     published_at \in TimestampOptions}

InitAnalyze ==
  /\ Idle
  /\ c_item = << >>
  /\ c_result = None
  /\ e_item \in AnalyzeInputs
  /\ e_result = None
  /\ p_args = << >>
  /\ p_result = None

AnalyzeCall ==
  /\ e_result = None
  /\ e_result' = IF EngagementRaises(e_item) THEN << "raised" >>
                 ELSE << "returned", calculate_engagement_quality(e_item, now) >>
  /\ UNCHANGED << e_item, c_item, c_result, p_args, p_result, curate_vars >>

NextAnalyze == AnalyzeCall

SpecAnalyze == InitAnalyze /\ [][NextAnalyze]_vars

\* a stand-alone call of _calculate_priority
QualityTiers ==
  {"skip_flamewar", "trending_must_include", "high_quality", "good", "moderate", "low"}

\* relevance_score in hundredths: every value round(min(total / 10, 1.0), 2) can take
RelevanceScores == 0..100

PriorityInputs ==
  {[classification |-> c, engagement |-> e] :
     c \in {<< >>} \cup {[relevance_score |-> r] : r \in RelevanceScores},
     e \in {<< >>} \cup {[quality_tier |-> t] : t \in QualityTiers}}

InitPriority ==
  /\ Idle
  /\ c_item = << >>
  /\ c_result = None
  /\ e_item = << >>
  /\ e_result = None
  /\ p_args \in PriorityInputs
  /\ p_result = None

PriorityCall ==
  /\ p_result = None
  /\ p_args # << >>
  /\ p_result' = Some(_calculate_priority(p_args.classification, p_args.engagement))
  /\ UNCHANGED << p_args, c_item, c_result, e_item, e_result, curate_vars >>

NextPriority == PriorityCall

SpecPriority == InitPriority /\ [][NextPriority]_vars

----------------------------------------------------------------------------
(* Properties *)

Hiding == GetRaw(filtered_out, "low_quality_hidden", << >>)

\* is_flamewar recomputed from the raw counts of a record or curated item
FlamewarRecord(item) ==
  LET likes == OrElse(Get(item, "impressions_likes", 0), 0)
      replies == OrElse(Get(item, "impressions_replies", 0), 0)
  IN  2 * replies > 3 * Max(likes, 1) /\ replies > 100

\* C1 (as claimed): the returned document holds at most publish_count published
\* items and at most pool_size pool items, zero included
C1_SizeBounds ==
  output # None =>
    /\ Len(output[1].published_items) <= config.publish_count
    /\ Len(output[1].pool_items) <= config.pool_size

\* C2: no flamewar record is ever in the pool, in published, or in the
\* pool_items and published_items of the returned document
C2_NoFlamewarSelected ==
  LET clean(items) ==
        \A k \in 1..Len(items) :
          ~FlamewarRecord(items[k]) /\ ~items[k].engagement_quality.is_flamewar
  IN  /\ clean(pool)
      /\ clean(published)
      /\ output # None => clean(output[1].pool_items) /\ clean(output[1].published_items)

C2_Witness ==
  /\ output # None
  /\ Len(filtered_out.flamewar) > 0
  /\ Len(output[1].pool_items) > 0
  /\ \E k \in 1..Len(raw_items) : FlamewarRecord(raw_items[k])

C3_Low(item) == item.engagement_quality.quality_tier = "low"

C3_Fresh(item) == item.engagement_quality.hours_old < 40

C3_Topic(item) == item.classification.primary_topic

\* published items so far that share the item's primary topic
C3_SameTopic(item, upto) ==
  Cardinality({k \in 1..upto : C3_Topic(published[k]) = C3_Topic(item)})

C3_PublishedLowJustified ==
  \A k \in 1..Len(published) :
    C3_Low(published[k]) =>
      C3_Fresh(published[k]) \/ C3_SameTopic(published[k], k - 1) = 0

C3_Examine ==
  (pc = "publish" /\ C3_Low(pool[pos])) =>
    IF C3_Fresh(pool[pos]) \/ C3_SameTopic(pool[pos], Len(published)) = 0
    THEN /\ published' = Append(published, pool[pos])
         /\ Hiding' = Hiding
    ELSE /\ published' = published
         /\ Len(Hiding') = Len(Hiding) + 1
         /\ Hiding'[Len(Hiding')].title = GetOpt(pool[pos], "title")
         /\ SubSeq(Hiding', 1, Len(Hiding)) = Hiding

\* C3: a low-tier pool item under examination is published iff it is less than 4
\* hours old or no published item has its primary topic yet; otherwise it goes to
\* low_quality_hidden and published is left alone, so every low-tier item in
\* published is fresh or was the first of its topic
C3_LowAdmission == [] C3_PublishedLowJustified /\ [][C3_Examine]_vars

\* two stale low-tier items of one topic: the first published, the second hidden
C3_Witness ==
  /\ Len(Hiding) > 0
  /\ \E k \in 1..Len(published) :
       /\ C3_Low(published[k]) /\ ~C3_Fresh(published[k])
       /\ \E m \in 1..Len(pool) :
            /\ pool[m].src # published[k].src
            /\ C3_Low(pool[m]) /\ ~C3_Fresh(pool[m])
            /\ C3_Topic(pool[m]) = C3_Topic(published[k])
            /\ \A n \in 1..Len(published) : published[n].src # pool[m].src
            /\ m < pos

C4_Text(item) ==
  Lower(OrElse(GetOpt(item, "title"), "")) \o " " \o Lower(OrElse(GetOpt(item, "content"), ""))

C4_HasNoise(item) ==
  \E k \in 1..Len(NOISE_KEYWORDS) : Contains(NOISE_KEYWORDS[k], C4_Text(item))

C4_Reason(item) ==
  LET k == CHOOSE k \in 1..Len(NOISE_KEYWORDS) :
             /\ Contains(NOISE_KEYWORDS[k], C4_Text(item))
             /\ \A m \in 1..(k - 1) : ~Contains(NOISE_KEYWORDS[m], C4_Text(item))
  IN  "noise_keyword: " \o NOISE_KEYWORDS[k]

C4_Funnel ==
  (pc = "funnel" /\ C4_HasNoise(raw_items[idx])) =>
    LET item == raw_items[idx]
        result == classify_item(item)
    IN  /\ result.is_noise
        /\ result.filter_reason = Some(C4_Reason(item))
        /\ filtered_out' =
             [filtered_out EXCEPT !.noise =
                Append(@, [title |-> GetOpt(item, "title"), reason |-> C4_Reason(item)])]
        /\ curated' = curated
        /\ pc' # "fault"

\* C4: a record whose lowercased text holds a noise keyword is classified as noise
\* with reason "noise_keyword: <first matching phrase>", whatever topic keywords it
\* holds, and the funnel appends it to the noise bucket and to nothing else
C4_NoiseWins == [][C4_Funnel]_vars

\* a headline carrying five LLM keywords, discarded for a noise phrase in the body
C4_Witness ==
  /\ pc = "done"
  /\ GetOpt(raw_items[1], "title") = Some("OpenAI ChatGPT vs Anthropic Claude LLM")
  /\ GetOpt(raw_items[1], "content") = Some("a drug trial")
  /\ Len(filtered_out.noise) = 1
  /\ filtered_out.noise[1].reason = "noise_keyword: drug trial"
  /\ curated = << >>

\* C5: a classification is never both noise and relevant; noise has relevance 0
\* and no primary topic; anything else is relevant with a primary topic among
\* the matched topics
C5_ClassificationShape ==
  c_result # None =>
    LET c == c_result[1]
    IN  /\ ~(c.is_noise /\ c.is_ai_relevant)
        /\ c.is_noise => c.relevance_score = 0 /\ c.primary_topic = None
        /\ ~c.is_noise =>
             /\ c.is_ai_relevant
             /\ c.primary_topic # None
             /\ \E k \in 1..Len(c.all_topics) : c.all_topics[k] = c.primary_topic[1]

C5_Witness ==
  /\ c_result # None
  /\ ~c_result[1].is_noise
  /\ Len(c_result[1].all_topics) >= 2
  /\ c_result[1].primary_topic # Some(c_result[1].all_topics[1])

\* sum of raw_score times topic weight over the matched topics, in hundredths
C6_Total(c) ==
  LET weight(id) == (CHOOSE t \in 1..Len(AI_TOPICS) : AI_TOPICS[t].id = id)
      part(k) == c.topic_details[k].raw_score * AI_TOPICS[weight(c.topic_details[k].id)].weight
      sum[k \in 0..Len(c.topic_details)] == IF k = 0 THEN 0 ELSE sum[k - 1] + part(k)
  IN  sum[Len(c.topic_details)]

\* C6 (as claimed): relevance_score is in [0, 1], is exactly min(sum / 10, 1.0)
\* for a relevant record and 0 for noise
C6_ExactRelevance ==
  c_result # None =>
    LET c == c_result[1]
    IN  /\ c.relevance_score \in 0..100
        /\ c.is_noise => c.relevance_score = 0
        /\ ~c.is_noise => 10 * c.relevance_score = Min(C6_Total(c), 1000)

\* C6 (amended): relevance_score is in [0, 1], is min(sum / 10, 1.0) rounded to
\* two decimals, hence within 0.005 of it, for a relevant record and 0 for noise
C6_RoundedRelevance ==
  c_result # None =>
    LET c == c_result[1]
        exact == Min(C6_Total(c), 1000)
    IN  /\ c.relevance_score \in 0..100
        /\ c.is_noise => c.relevance_score = 0
        /\ ~c.is_noise =>
             /\ 10 * c.relevance_score - exact <= 5
             /\ exact - 10 * c.relevance_score <= 5

\* the keywords add up to more than 10, and the score is 1.0
C6_Witness ==
  /\ c_result # None
  /\ ~c_result[1].is_noise
  /\ C6_Total(c_result[1]) > 1000
  /\ c_result[1].relevance_score = 100

C7_Key(item) ==
  << IF item.engagement_quality.quality_tier = "trending_must_include" THEN 0 ELSE 1,
     item.editorial.newsletter_priority,
     0 - item.engagement_quality.velocity * item.engagement_quality.discussion_depth >>

C7_Less(a, b) ==
  \/ a[1] < b[1]
  \/ a[1] = b[1] /\ a[2] < b[2]
  \/ a[1] = b[1] /\ a[2] = b[2] /\ a[3] < b[3]

C7_Ordered(items) ==
  \A p, q \in 1..Len(items) :
    p < q =>
      /\ ~C7_Less(C7_Key(items[q]), C7_Key(items[p]))
      /\ C7_Key(items[p]) = C7_Key(items[q]) => items[p].src < items[q].src

\* C7: once sorted, the survivors, and so the pool, ascend in (tier rank,
\* newsletter_priority, -(velocity * discussion_depth)), and items with equal
\* keys stay in input order
C7_SortedStable ==
  pc \in {"publish", "finish", "done"} =>
    /\ C7_Ordered(curated)
    /\ C7_Ordered(pool)
    /\ pool = SubSeq(curated, 1, Len(pool))

\* three survivors: the sort moved the last one to the front on the third level
\* of the key alone, and the other two tie on the whole key
C7_Witness ==
  /\ pc = "done"
  /\ Len(curated) = 3
  /\ curated[1].src = 3
  /\ C7_Key(curated[1])[1] = C7_Key(curated[2])[1]
  /\ C7_Key(curated[1])[2] = C7_Key(curated[2])[2]
  /\ C7_Key(curated[1])[3] < C7_Key(curated[2])[3]
  /\ C7_Key(curated[2]) = C7_Key(curated[3])
  /\ Len(pool) >= 2

\* C8 (as claimed): a second curate call on the same batch and configuration
\* returns the same document but for curated_at
C8_SameDocumentTwice ==
  (run = 2 /\ output # None /\ prev_output # None) =>
    [output[1] EXCEPT !.curated_at = 0] = [prev_output[1] EXCEPT !.curated_at = 0]

\* C9 (as claimed): no record with absent or null fields makes curate raise
C9_NeverRaises == pc # "fault"

C10_Fate(item) ==
  IF Classify(item).is_noise THEN "noise"
  ELSE IF FlamewarRecord(item) THEN "flamewar"
  ELSE IF Classify(item).relevance_score < config.min_relevance THEN "low_relevance"
  ELSE "curated"

C10_Grows(before, after) == Len(after) = Len(before) + 1 /\ SubSeq(after, 1, Len(before)) = before

C10_Funnel ==
  pc = "funnel" =>
    LET item == raw_items[idx]
        fate == C10_Fate(item)
        same(bucket) == filtered_out'[bucket] = filtered_out[bucket]
        entry(bucket) ==
          /\ C10_Grows(filtered_out[bucket], filtered_out'[bucket])
          /\ filtered_out'[bucket][Len(filtered_out'[bucket])].title = GetOpt(item, "title")
    IN  /\ fate = "noise" =>
              entry("noise") /\ same("flamewar") /\ same("low_relevance") /\ curated' = curated
        /\ fate = "flamewar" =>
              entry("flamewar") /\ same("noise") /\ same("low_relevance") /\ curated' = curated
        /\ fate = "low_relevance" =>
              entry("low_relevance") /\ same("noise") /\ same("flamewar") /\ curated' = curated
        /\ curated' # curated =>
              /\ fate = "curated"
              /\ filtered_out' = filtered_out
              /\ C10_Grows(curated, curated')

\* C10 (as claimed): the funnel sends each record to the first of noise, flamewar,
\* low_relevance whose condition holds and to no other collection; only a record
\* for which none holds is appended to curated
C10_FirstBucketOnly == [][C10_Funnel]_vars

Returned(result) == Len(result) = 2

C11_Likes(item) == OrElse(Get(item, "impressions_likes", 0), 0)

C11_Replies(item) == OrElse(Get(item, "impressions_replies", 0), 0)

\* velocity > 20 on the unrounded value: likes per hour over at least one hour
C11_Fast(item, clock) ==
  /\ TimestampUsable(item)
  /\ LET elapsed == clock - IsoSeconds(item["published_at"][1])
     IN  C11_Likes(item) * 3600 > 20 * Max(elapsed, 3600)

\* engagement_ratio < 0.6 on the unrounded value
C11_Lean(item) == 10 * C11_Replies(item) < 6 * Max(C11_Likes(item), 1)

\* C11: quality_tier is the first matching row of: skip_flamewar if is_flamewar;
\* trending_must_include if velocity > 20 and likes > 100; high_quality if
\* likes > 300 and ratio < 0.6; good if likes > 100; moderate if likes > 30; low
\* otherwise; metadata and anything else in the record have no part in it
C11_TierOrder ==
  Returned(e_result) =>
    LET tier == e_result[2].quality_tier
        likes == C11_Likes(e_item)
        flame == e_result[2].is_flamewar
        trending == C11_Fast(e_item, now) /\ likes > 100
        high == likes > 300 /\ C11_Lean(e_item)
    IN  /\ tier = "skip_flamewar" <=> flame
        /\ tier = "trending_must_include" <=> ~flame /\ trending
        /\ tier = "high_quality" <=> ~flame /\ ~trending /\ high
        /\ tier = "good" <=> ~flame /\ ~trending /\ ~high /\ likes > 100
        /\ tier = "moderate" <=> ~flame /\ likes <= 100 /\ likes > 30
        /\ tier = "low" <=> ~flame /\ likes <= 30

\* a flamewar with more than 100 likes arriving at more than 20 likes an hour
C11_Witness ==
  /\ Returned(e_result)
  /\ e_result[2].is_flamewar
  /\ C11_Likes(e_item) > 100
  /\ e_result[2].velocity > 2000
  /\ e_result[2].quality_tier = "skip_flamewar"

\* the worked example: 350 likes, 80 replies, published 2 hours before now
C12_Example(item) ==
  /\ GetOpt(item, "title") = Some("Benchmarking GPT-4 vs Claude")
  /\ GetOpt(item, "impressions_likes") = Some(350)
  /\ GetOpt(item, "impressions_replies") = Some(80)
  /\ TimestampUsable(item)
  /\ now - IsoSeconds(item["published_at"][1]) = 2 * 3600

\* C12 (as claimed): the example is high-signal, of tier high_quality, and has
\* newsletter_priority 2 when its relevance_score exceeds 0.5
C12_ExampleHighQuality ==
  \A k \in 1..Len(curated) :
    C12_Example(curated[k]) =>
      /\ curated[k].engagement_quality.is_high_signal
      /\ curated[k].engagement_quality.quality_tier = "high_quality"
      /\ curated[k].classification.relevance_score > 50 =>
           curated[k].editorial.newsletter_priority = 2

\* C12 (amended): the example is high-signal but of tier trending_must_include,
\* its velocity being 175; its relevance_score is 0.58 and its priority 4
C12_ExampleTrending ==
  \A k \in 1..Len(curated) :
    C12_Example(curated[k]) =>
      /\ curated[k].engagement_quality.is_high_signal
      /\ curated[k].engagement_quality.velocity = 17500
      /\ curated[k].engagement_quality.quality_tier = "trending_must_include"
      /\ curated[k].classification.relevance_score = 58
      /\ curated[k].editorial.newsletter_priority = 4

C12_Witness ==
  /\ pc = "done"
  /\ \E k \in 1..Len(output[1].published_items) : C12_Example(output[1].published_items[k])

C13_Trending(item) == item.engagement_quality.quality_tier = "trending_must_include"

C13_TrendingLead(items) ==
  \A p, q \in 1..Len(items) : (C13_Trending(items[q]) /\ ~C13_Trending(items[p])) => q < p

\* C13: in the sorted survivors and in the pool every trending_must_include item
\* precedes every item of another tier, whatever their priorities, and the cut
\* to pool_size never keeps a non-trending item while dropping a trending one
C13_TrendingFirst ==
  pc \in {"publish", "finish", "done"} =>
    /\ C13_TrendingLead(curated)
    /\ C13_TrendingLead(pool)
    /\ output # None => C13_TrendingLead(output[1].pool_items)
    /\ \A k \in (Len(pool) + 1)..Len(curated) :
         C13_Trending(curated[k]) => \A m \in 1..Len(pool) : C13_Trending(pool[m])

\* a trending item of priority 5 that entered last leads a non-trending item of
\* priority 2, and the cut to pool_size drops the latter
C13_Witness ==
  /\ pc = "done"
  /\ Len(curated) >= 2
  /\ Len(output[1].pool_items) = 1
  /\ C13_Trending(curated[1])
  /\ curated[1].editorial.newsletter_priority = 5
  /\ ~C13_Trending(curated[2])
  /\ curated[2].editorial.newsletter_priority = 2
  /\ curated[1].src > curated[2].src

\* the timestamp is absent, null, or a text that is no ISO-8601 date
C14_NoTimestamp(item) ==
  \/ "published_at" \notin DOMAIN item
  \/ item["published_at"] = None
  \/ item["published_at"] \in {Some(""), Some("yesterday")}

\* C14 (as claimed): for a record without a usable timestamp the analysis does
\* not fail and returns hours_old = 24 and velocity = 0, so the record is neither
\* trending_must_include nor fresh
C14_TimestampFailSoft ==
  (e_result # None /\ C14_NoTimestamp(e_item)) =>
    /\ Returned(e_result)
    /\ e_result[2].hours_old = 240
    /\ e_result[2].velocity = 0
    /\ e_result[2].quality_tier # "trending_must_include"
    /\ ~(e_result[2].hours_old < 40)

C15_Valid(c) ==
  /\ c.pool_size >= 0
  /\ c.publish_count >= 0
  /\ c.min_relevance \in 0..100

\* C15 (as claimed): no record passes through the funnel of a curator whose
\* pool_size or publish_count is negative or whose min_relevance is outside [0, 1]
C15_FunnelConfigValid == idx > 1 => C15_Valid(config)

\* C16 (as claimed): every entry of every bucket of filtered_out holds a title
\* and a reason
C16_EntriesHaveReason ==
  \A bucket \in DOMAIN filtered_out :
    \A k \in 1..Len(filtered_out[bucket]) :
      {"title", "reason"} \subseteq DOMAIN filtered_out[bucket][k]

C17_Title(item) == Lower(OrElse(GetOpt(item, "title"), ""))

\* 2 for each keyword of topic t found in the title, 1 for each found in the
\* body only
C17_Raw(t, item) ==
  LET keywords == AI_TOPICS[t].keywords
      points(kw) == IF Contains(kw, C17_Title(item)) THEN 2
                    ELSE IF Contains(kw, C4_Text(item)) THEN 1 ELSE 0
      sum[k \in 0..Len(keywords)] == IF k = 0 THEN 0 ELSE sum[k - 1] + points(keywords[k])
  IN  sum[Len(keywords)]

C17_Index(id) == CHOOSE t \in 1..Len(AI_TOPICS) : AI_TOPICS[t].id = id

\* C17: for a non-noise record the matched topics are those with a keyword in the
\* text, in taxonomy order; each has raw_score 2 per keyword in the title plus 1
\* per keyword in the body only and weighted_score raw_score times the topic
\* weight; the primary topic has the maximal weighted_score and is the first in
\* taxonomy order when several share the maximum
C17_PrimaryIsFirstMaximum ==
  (c_result # None /\ ~c_result[1].is_noise) =>
    LET c == c_result[1]
        details == c.topic_details
    IN  /\ \A t \in 1..Len(AI_TOPICS) :
             LET raw == C17_Raw(t, c_item)
             IN  IF raw = 0
                 THEN \A k \in 1..Len(details) : details[k].id # AI_TOPICS[t].id
                 ELSE \E k \in 1..Len(details) :
                        /\ details[k].id = AI_TOPICS[t].id
                        /\ details[k].raw_score = raw
                        /\ details[k].weighted_score = raw * AI_TOPICS[t].weight
        /\ \A k, m \in 1..Len(details) :
             k < m => C17_Index(details[k].id) < C17_Index(details[m].id)
        /\ c.all_topics = [k \in 1..Len(details) |-> details[k].id]
        /\ \E k \in 1..Len(details) :
             /\ c.primary_topic = Some(details[k].id)
             /\ c.primary_topic_label = AI_TOPICS[C17_Index(details[k].id)].label
             /\ \A m \in 1..Len(details) : details[m].weighted_score <= details[k].weighted_score
             /\ \A m \in 1..(k - 1) : details[m].weighted_score < details[k].weighted_score

\* two topics share the maximal weighted score, the earlier is primary, and a
\* third topic scores less
C17_Witness ==
  /\ c_result # None
  /\ ~c_result[1].is_noise
  /\ LET details == c_result[1].topic_details
     IN  \E k, m, n \in 1..Len(details) :
           /\ k < m
           /\ details[k].weighted_score = details[m].weighted_score
           /\ details[n].weighted_score < details[k].weighted_score
           /\ \A j \in 1..Len(details) : details[j].weighted_score <= details[k].weighted_score
           /\ c_result[1].primary_topic = Some(details[k].id)

\* C18: newsletter_priority is an integer in 1..5, the first matching row of:
\* 1 if trending_must_include and relevance > 0.6; 2 if high_quality and
\* relevance > 0.5; 3 if good or high_quality; 4 if relevance > 0.3; 5 otherwise
C18_PriorityTable ==
  p_result # None =>
    LET relevance == IF "relevance_score" \in DOMAIN p_args.classification
                     THEN p_args.classification.relevance_score ELSE 0
        tier == IF "quality_tier" \in DOMAIN p_args.engagement
                THEN p_args.engagement.quality_tier ELSE "low"
        row1 == tier = "trending_must_include" /\ relevance > 60
        row2 == tier = "high_quality" /\ relevance > 50
        row3 == tier \in {"good", "high_quality"}
        row4 == relevance > 30
        priority == p_result[1]
    IN  /\ priority \in 1..5
        /\ priority = 1 <=> row1
        /\ priority = 2 <=> ~row1 /\ row2
        /\ priority = 3 <=> ~row1 /\ ~row2 /\ row3
        /\ priority = 4 <=> ~row1 /\ ~row2 /\ ~row3 /\ row4
        /\ priority = 5 <=> ~row1 /\ ~row2 /\ ~row3 /\ ~row4

\* a trending item whose relevance is exactly 0.6 misses the first row and
\* lands on the fourth
C18_Witness ==
  /\ p_result = Some(4)
  /\ p_args.engagement = [quality_tier |-> "trending_must_include"]
  /\ p_args.classification = [relevance_score |-> 60]

\* the section of a primary topic, read off the claim's list
C19_Section(topic) ==
  CASE topic \in {"llm", "ml_research"} -> "AI & LLMs"
    [] topic = "ai_infra" -> "AI Infrastructure"
    [] topic = "ai_product" -> "AI Products & Startups"
    [] topic = "ai_ethics" -> "AI Ethics & Policy"
    [] topic = "developer_tools" -> "Developer Tools"
    [] topic = "tech_industry" -> "Tech Industry News"
    [] OTHER -> "Other Notable"

C19_SectionOf(item) == C19_Section(item.classification.primary_topic[1])

RECURSIVE C19_Total(_, _)
C19_Total(counts, labels) ==
  IF labels = {} THEN 0
  ELSE LET label == CHOOSE l \in labels : TRUE
       IN  counts[label] + C19_Total(counts, labels \ {label})

\* C19: every published item sits in exactly one section, the one of its primary
\* topic (the fallback section, labelled "Other Notable" by the code, for a topic
\* outside the list); a section is in ascending newsletter_priority, items of
\* equal priority in their published order; the per-theme counts of stats sum
\* to len(published_items)
C19_SectionsPartitionPublished ==
  output # None =>
    LET doc == output[1]
        items == doc.published_items
        themes == doc.themes
    IN  /\ DOMAIN themes = {C19_SectionOf(items[k]) : k \in 1..Len(items)}
        /\ \A label \in DOMAIN themes :
             /\ \A p \in 1..5 :
                  SelectSeq(themes[label],
                            LAMBDA item : item.editorial.newsletter_priority = p)
                  = SelectSeq(items,
                              LAMBDA item : /\ C19_SectionOf(item) = label
                                            /\ item.editorial.newsletter_priority = p)
             /\ \A m, n \in 1..Len(themes[label]) :
                  m < n => themes[label][m].editorial.newsletter_priority
                           <= themes[label][n].editorial.newsletter_priority
             /\ \A m \in 1..Len(themes[label]) :
                  themes[label][m].editorial.newsletter_priority \in 1..5
        /\ DOMAIN doc.stats.themes = DOMAIN themes
        /\ \A label \in DOMAIN themes : doc.stats.themes[label] = Len(themes[label])
        /\ C19_Total(doc.stats.themes, DOMAIN doc.stats.themes) = Len(items)
        /\ doc.stats.published_items = Len(items)

\* two items of one section were published in descending priority and the
\* section lists them the other way round
C19_Witness ==
  /\ output # None
  /\ Len(output[1].published_items) = 2
  /\ C19_SectionOf(output[1].published_items[1]) = C19_SectionOf(output[1].published_items[2])
  /\ output[1].published_items[1].editorial.newsletter_priority
     > output[1].published_items[2].editorial.newsletter_priority
  /\ output[1].themes[C19_SectionOf(output[1].published_items[1])]
     = << output[1].published_items[2], output[1].published_items[1] >>

\* C20: whatever the likes and replies (absent or falsy counts as 0), with
\* ratio = replies / max(likes, 1): is_flamewar = ratio > 1.5 and replies > 100,
\* is_high_signal = likes > 200 and ratio < 0.5, and the two are never both true
C20_FlamewarExcludesHighSignal ==
  Returned(e_result) =>
    LET likes == IF GetOpt(e_item, "impressions_likes") \in {None, Some(0)}
                 THEN 0 ELSE e_item["impressions_likes"][1]
        replies == IF GetOpt(e_item, "impressions_replies") \in {None, Some(0)}
                   THEN 0 ELSE e_item["impressions_replies"][1]
        floor == IF likes > 1 THEN likes ELSE 1
    IN  /\ e_result[2].is_flamewar <=> (2 * replies > 3 * floor /\ replies > 100)
        /\ e_result[2].is_high_signal <=> (likes > 200 /\ 2 * replies < floor)
        /\ ~(e_result[2].is_flamewar /\ e_result[2].is_high_signal)

\* a flamewar on a record with more than 200 likes
C20_Witness ==
  /\ Returned(e_result)
  /\ GetOpt(e_item, "impressions_likes") = Some(350)
  /\ GetOpt(e_item, "impressions_replies") = Some(600)
  /\ e_result[2].is_flamewar
  /\ ~e_result[2].is_high_signal

\* the destination of a record, from the record, the threshold and the clock
C21_Bucket(item, min_relevance, clock) ==
  IF Classify(item).is_noise THEN "noise"
  ELSE IF Analyze(item, clock).quality_tier = "skip_flamewar" THEN "flamewar"
  ELSE IF Classify(item).relevance_score < min_relevance THEN "low_relevance"
  ELSE "survivor"

C21_Entry(item, bucket) ==
  IF bucket = "noise"
  THEN [title |-> GetOpt(item, "title"), reason |-> Classify(item).filter_reason[1]]
  ELSE [title |-> GetOpt(item, "title")]

C21_Step ==
  (pc = "funnel" /\ pc' # "fault") =>
    LET item == raw_items[idx]
        bucket == C21_Bucket(item, config.min_relevance, now)
    IN  /\ \A b \in {"noise", "flamewar", "low_relevance"} :
             filtered_out'[b] = IF b = bucket
                                THEN Append(filtered_out[b], C21_Entry(item, b))
                                ELSE filtered_out[b]
        /\ IF bucket = "survivor"
           THEN /\ Len(curated') = Len(curated) + 1
                /\ SubSeq(curated', 1, Len(curated)) = curated
                /\ curated'[Len(curated')].classification = Classify(item)
                /\ curated'[Len(curated')].engagement_quality = Analyze(item, now)
                /\ curated'[Len(curated')].editorial = Synthesize(item, now)
           ELSE curated' = curated

\* C21: what a funnel step computes for the record at hand (classification,
\* engagement quality, editorial content) and the bucket it puts it in are fixed
\* by that record, min_relevance and the clock; the records processed before it
\* and those still to come have no part in it (a step that raises computes
\* nothing)
C21_RecordLocal == [][C21_Step]_vars

\* one record at the first and the third place of a batch, another record between
\* them, and the two survivors agree in everything curate attached
C21_Witness ==
  /\ pc = "done"
  /\ Len(raw_items) = 3
  /\ raw_items[1] = raw_items[3]
  /\ raw_items[1] # raw_items[2]
  /\ \E m, n \in 1..Len(curated) :
       /\ curated[m].src = 1
       /\ curated[n].src = 3
       /\ [curated[m] EXCEPT !.src = 0] = [curated[n] EXCEPT !.src = 0]

C22_Attached == {"classification", "engagement_quality", "editorial"}

\* no input record carries what curate attaches, and every survivor is its
\* input record with the three attachments added
C22_RecordsPlain ==
  /\ \A k \in 1..Len(raw_items) : DOMAIN raw_items[k] \cap C22_Attached = {}
  /\ \A k \in 1..Len(curated) :
       LET record == raw_items[curated[k].src]
       IN  /\ DOMAIN curated[k] = DOMAIN record \cup C22_Attached \cup {"src"}
           /\ \A key \in DOMAIN record : curated[k][key] = record[key]

\* C22: curate leaves its input as it found it: the list keeps its records and
\* their order through every step, sorting and slicing included, no record gains,
\* loses or changes a field, and the attachments are on the new items only
C22_InputUnchanged == []C22_RecordsPlain /\ [][raw_items' = raw_items]_vars

\* a returned document whose survivors were sorted into another order than the
\* input's
C22_Witness ==
  /\ output # None
  /\ Len(curated) >= 2
  /\ curated[1].src > curated[2].src
  /\ Len(output[1].published_items) >= 1

\* C23: the per-topic counts of publish selection are empty when the publish loop
\* of an invocation starts, whatever an earlier invocation left, and a second
\* call on the same batch at the same clock returns the document the first call
\* returned
C23_CountsPerInvocation ==
  /\ (pc = "publish" /\ pos = 1) => theme_counts = << >>
  /\ (run = 2 /\ output # None /\ now = Clock0) => output = prev_output

\* the second call publishes a stale low-tier item as the first of its topic,
\* although the first call had published it already
C23_Witness ==
  /\ run = 2
  /\ output # None
  /\ now = Clock0
  /\ prev_output # None
  /\ \E k \in 1..Len(prev_output[1].published_items) :
       prev_output[1].published_items[k].engagement_quality.quality_tier = "low"
  /\ \E k \in 1..Len(output[1].published_items) :
       /\ output[1].published_items[k].engagement_quality.quality_tier = "low"
       /\ output[1].published_items[k].engagement_quality.hours_old >= 40

\* the pool items the publish filter admits when the pool is scanned in order:
\* every item that is not low-tier, and a low-tier item that is fresh or the
\* first admitted item of its topic
RECURSIVE C24_Admissible(_, _)
C24_Admissible(items, n) ==
  IF n = 0 THEN << >>
  ELSE LET before == C24_Admissible(items, n - 1)
           item == items[n]
           low == item.engagement_quality.quality_tier = "low"
           fresh == item.engagement_quality.hours_old < 40
           first == \A k \in 1..Len(before) :
                      before[k].classification.primary_topic
                        # item.classification.primary_topic
       IN  IF low /\ ~fresh /\ ~first THEN before ELSE Append(before, item)

\* C24 (as claimed): the scan of the pool stops as soon as published holds
\* publish_count items: published_items is the first publish_count admissible pool
\* items in pool order, and a pool item behind the stopping point is neither
\* published nor hidden
C24_StopsAtPublishCount ==
  output # None =>
    LET admissible == C24_Admissible(pool, Len(pool))
        wanted == IF config.publish_count < Len(admissible)
                  THEN config.publish_count ELSE Len(admissible)
    IN  /\ output[1].published_items = SubSeq(admissible, 1, wanted)
        /\ Len(output[1].published_items) + Len(Hiding) = pos - 1
        /\ (Len(pool) > 0 /\ pos - 1 < Len(pool)) =>
             Len(output[1].published_items) = config.publish_count

\* the primary topic of a selected item, as the publish loop reads it
C25_Topic(item) == item.classification.primary_topic

C25_Count(counts, topic) == IF topic \in DOMAIN counts THEN counts[topic] ELSE 0

\* the running count of a topic is the number of published items of that topic
C25_CountsMatchPublished ==
  /\ DOMAIN theme_counts = {C25_Topic(published[k]) : k \in 1..Len(published)}
  /\ \A topic \in DOMAIN theme_counts :
       theme_counts[topic]
         = Cardinality({k \in 1..Len(published) : C25_Topic(published[k]) = topic})

C25_Examine ==
  pc = "publish" =>
    \/ /\ Len(Hiding') = Len(Hiding) + 1
       /\ pool[pos].engagement_quality.quality_tier = "low"
       /\ theme_counts' = theme_counts
       /\ published' = published
    \/ /\ Hiding' = Hiding
       /\ published' = Append(published, pool[pos])
       /\ DOMAIN theme_counts' = DOMAIN theme_counts \cup {C25_Topic(pool[pos])}
       /\ \A topic \in DOMAIN theme_counts' :
            theme_counts'[topic]
              = C25_Count(theme_counts, topic)
                  + (IF topic = C25_Topic(pool[pos]) THEN 1 ELSE 0)

\* C25: a low-tier item turned away into low_quality_hidden leaves the per-topic
\* counts and published as they were, so it takes no publish slot; an admitted
\* item of any tier adds exactly one to its topic's count; the count of a topic is
\* always the number of items of that topic in published
C25_HiddenTakesNoSlot == []C25_CountsMatchPublished /\ [][C25_Examine]_vars

\* an item was hidden and the pool item examined after it was published
C25_Witness ==
  /\ pc \in {"publish", "finish", "done"}
  /\ Len(Hiding) >= 1
  /\ Len(published) = 2
  /\ pos = 4
  /\ published[2] = pool[3]
  /\ published[1] = pool[1]

C26_Phrases ==
  << "rapidly gaining attention", "highly upvoted by HN community", "quality discussion",
     "directly relevant to AI practitioners",
     "infrastructure implications for AI deployment", "commercial AI application" >>

\* the candidates that apply to a curated item, by their place in the fixed order
C26_Applicable(item) ==
  LET likes == IF GetOpt(item, "impressions_likes") = None THEN 0
               ELSE item["impressions_likes"][1]
      topic == item.classification.primary_topic
  IN  {k \in 1..6 :
         \/ k = 1 /\ item.engagement_quality.velocity > 2000
         \/ k = 2 /\ likes > 300
         \/ k = 3 /\ item.engagement_quality.is_high_signal
         \/ k = 4 /\ topic \in {Some("llm"), Some("ml_research")}
         \/ k = 5 /\ topic = Some("ai_infra")
         \/ k = 6 /\ topic = Some("ai_product")}

C26_First(on) == CHOOSE k \in on : \A m \in on : k <= m

C26_Expected(item) ==
  LET on == C26_Applicable(item)
  IN  IF on = {} THEN "worth monitoring"
      ELSE IF Cardinality(on) = 1 THEN C26_Phrases[C26_First(on)]
      ELSE C26_Phrases[C26_First(on)] \o "; "
             \o C26_Phrases[C26_First(on \ {C26_First(on)})]

\* C26: why_it_matters is the first two applicable signals of the fixed order
\* (velocity > 20; likes > 300; is_high_signal; topic llm or ml_research; topic
\* ai_infra; topic ai_product) joined by "; ", the one signal when only one
\* applies, and "worth monitoring" when none does
C26_WhyItMatters ==
  \A k \in 1..Len(curated) : curated[k].editorial.why_it_matters = C26_Expected(curated[k])

\* one survivor with more than two applicable signals, the first of them not the
\* velocity signal, and one survivor with none
C26_Witness ==
  /\ pc = "done"
  /\ \E k \in 1..Len(curated) :
       /\ Cardinality(C26_Applicable(curated[k])) >= 3
       /\ 1 \notin C26_Applicable(curated[k])
  /\ \E k \in 1..Len(curated) : C26_Applicable(curated[k]) = {}

\* C27 (as claimed): in the returned document a published low-tier item that is
\* 4 hours old or older is the only published item of its theme
C27_StaleLowAloneInTheme ==
  output # None =>
    \A k \in 1..Len(output[1].published_items) :
      LET item == output[1].published_items[k]
      IN  (/\ item.engagement_quality.quality_tier = "low"
           /\ item.engagement_quality.hours_old >= 40)
          => Len(output[1].themes[ThemeOf(ItemTopic(item))]) = 1

C28_Sources(items) == {items[k].src : k \in 1..Len(items)}

\* the records processed so far are split between the three buckets and the
\* survivors, each survivor standing for one record of its own
C28_FunnelAccounts ==
  /\ idx - 1 = Len(filtered_out.noise) + Len(filtered_out.flamewar)
                 + Len(filtered_out.low_relevance) + Len(curated)
  /\ Cardinality(C28_Sources(curated)) = Len(curated)
  /\ C28_Sources(curated) \subseteq 1..(idx - 1)

\* the pool items examined so far are split between published and
\* low_quality_hidden; the others are the tail of the pool
C28_PoolAccounts ==
  pc \in {"publish", "finish", "done"} =>
    /\ Len(published) + Len(Hiding) = pos - 1
    /\ Cardinality(C28_Sources(published)) = Len(published)
    /\ C28_Sources(published) \subseteq {pool[m].src : m \in 1..(pos - 1)}
    /\ Cardinality(C28_Sources(pool)) = Len(pool)

\* C28 (as claimed): every input record is in exactly one of noise, flamewar,
\* low_relevance or the survivor list, so input_items is the sum of the three
\* filter counts and the survivors, pool_items is min(pool_size, survivors), and
\* every pool item is in exactly one of published_items, low_quality_hidden or
\* the unexamined tail
C28_EveryRecordAccounted ==
  /\ C28_FunnelAccounts
  /\ C28_PoolAccounts
  /\ output # None =>
       LET stats == output[1].stats
       IN  /\ stats.input_items = Len(raw_items)
           /\ stats.input_items = stats.filtered_noise + stats.filtered_flamewar
                                    + stats.filtered_low_relevance + Len(curated)
           /\ stats.pool_items = (IF config.pool_size < Len(curated)
                                  THEN config.pool_size ELSE Len(curated))
           /\ stats.pool_items = Len(output[1].pool_items)
           /\ stats.published_items + stats.filtered_low_quality
                + (Len(pool) - (pos - 1)) = stats.pool_items

C29_Passed(item) ==
  /\ item.classification.is_noise = FALSE
  /\ item.classification.primary_topic # None
  /\ item.engagement_quality.quality_tier # "skip_flamewar"
  /\ item.classification.relevance_score >= config.min_relevance

\* C29: every item of the pool and of published, and of pool_items and
\* published_items of the returned document, is no noise, has a primary topic, is
\* not of tier skip_flamewar and has relevance_score >= min_relevance
C29_SelectedPassedFilters ==
  /\ \A k \in 1..Len(pool) : C29_Passed(pool[k])
  /\ \A k \in 1..Len(published) : C29_Passed(published[k])
  /\ output # None =>
       /\ \A k \in 1..Len(output[1].pool_items) : C29_Passed(output[1].pool_items[k])
       /\ \A k \in 1..Len(output[1].published_items) :
            C29_Passed(output[1].published_items[k])

\* a document with a published item, from a batch that also held a record of too
\* little relevance and a noise record
C29_Witness ==
  /\ output # None
  /\ Len(output[1].published_items) >= 1
  /\ Len(output[1].filtered_out.low_relevance) >= 1
  /\ Len(output[1].filtered_out.noise) >= 1

\* the place in the pool of a published item
C30_Place(item, items) == CHOOSE m \in 1..Len(items) : items[m].src = item.src

\* C30 (as claimed): pool_items is the prefix of length min(pool_size, survivors)
\* of the sorted survivor list; published_items is a subsequence of pool_items in
\* the same relative order, no item twice; so published_items ascends in the sort
\* key and is no longer than pool_items
C30_PrefixAndSubsequence ==
  output # None =>
    LET items == output[1].pool_items
        chosen == output[1].published_items
        length == IF config.pool_size < Len(curated) THEN config.pool_size ELSE Len(curated)
    IN  /\ Len(items) = length
        /\ items = SubSeq(curated, 1, Len(items))
        /\ \A k \in 1..Len(chosen) :
             /\ \E m \in 1..Len(items) : items[m] = chosen[k]
             /\ \A n \in 1..Len(chosen) :
                  k < n => C30_Place(chosen[k], items) < C30_Place(chosen[n], items)
        /\ \A k, n \in 1..Len(chosen) :
             k < n => ~TupleLess(sort_key(chosen[n]), sort_key(chosen[k]))
        /\ Len(chosen) <= Len(items)
====
